---- MODULE Spec2Model ----
(***************************************************************************)
(* Model of consumers/project_consumer_joannafarris.py: a single-threaded  *)
(* consumer that tails a growing file of JSON lines, tallies keyword       *)
(* mentions per author and redraws a stacked bar chart after every record. *)
(*                                                                         *)
(* The data file is a sequence of units written by an external producer:   *)
(* a unit is either a newline or a piece of text.  The text of one JSON    *)
(* value reaches the file in one write together with its newline, in two   *)
(* writes ("head", then "tail" and newline), or whole with the newline in  *)
(* a later write, so that the consumer can poll in between.                *)
(***************************************************************************)
EXTENDS Integers, Sequences, FiniteSets, TLC

\* ----------------------------------------------------------------- bounds
MaxLines == 2    \* lines the producer appends after the model starts
MaxPre   == 1    \* lines already in the file before the consumer starts

\* ------------------------------------------------------ program constants
PALETTE ==
    << "#134E6F", "#134D6FC7", "#6064A8", "#6064A8C1", "#C85C9FB2",
       "#E76F6A", "#E76E6AB4", "#F2B24D", "#F2B34D84" >>

LEGEND_TOP_FIRST == TRUE

BigRank == 1000000000

\* ------------------------------------------------------------ input texts
Keys == {"author", "keyword_mentioned"}
AuthorVals == {"A"}
KwVals == {"", "x", "y"}

\* A JSON object as json.loads returns it: a dict over a subset of Keys.
ObjDicts ==
    UNION { { d \in [dom -> AuthorVals \cup KwVals] :
                /\ ("author" \in dom => d["author"] \in AuthorVals)
                /\ ("keyword_mentioned" \in dom =>
                        d["keyword_mentioned"] \in KwVals) } :
            dom \in SUBSET Keys }

EmptyDict == [k \in {} |-> ""]

\* The JSON texts the producer writes: objects, a JSON value that is not an
\* object (such as [1, 2]), and text that is not JSON at all.
Texts ==
    { [kind |-> "obj", dict |-> d] : d \in ObjDicts }
      \cup { [kind |-> "nonobj", dict |-> EmptyDict],
             [kind |-> "notjson", dict |-> EmptyDict] }

NoText == [kind |-> "none", dict |-> EmptyDict]

\* Producer state: the text of the line is written, its newline is not.
EndOfLine == [kind |-> "eol", dict |-> EmptyDict]

NL == [t |-> "nl", text |-> NoText, part |-> "-"]
Piece(x, p) == [t |-> "txt", text |-> x, part |-> p]

PreText == [kind |-> "obj",
            dict |-> [k \in Keys |-> IF k = "author" THEN "A" ELSE "x"]]

\* The texts the producer flushes in two writes.  A fragment fails to decode
\* whatever text it is cut from, so one text stands for all of them.
SplitTexts == { PreText }

RECURSIVE Repeat(_, _)
Repeat(s, n) == IF n = 0 THEN << >> ELSE s \o Repeat(s, n - 1)

PreFiles == { Repeat(<< Piece(PreText, "whole"), NL >>, n) : n \in 0..MaxPre }

VARIABLES
    exists,                     \* DATA_FILE.exists()
    file,                       \* content of DATA_FILE, in units
    pending,                    \* producer: text whose tail is still unwritten
    nlines,                     \* producer: lines started so far
    pc,                         \* consumer's position in main/process_message
    pos,                        \* file offset of the open handle
    start_eof,                  \* offset file.seek(0, SEEK_END) returned
    line,                       \* what file.readline() returned
    author, keyword,            \* locals of process_message
    keyword_counts_by_author,
    keyword_color,
    assign_rank,
    chart,                      \* what the axes show
    exc,                        \* exception that left the poll loop
    delivered,                  \* history: lines handed to process_message
    renders,                    \* history: calls of update_chart_all
    flushes,                    \* history: plt.show() calls in finally
    closed_logs                 \* history: "Consumer closed." log lines

vars == << exists, file, pending, nlines, pc, pos, start_eof, line, author,
           keyword, keyword_counts_by_author, keyword_color, assign_rank,
           chart, exc, delivered, renders, flushes, closed_logs >>

producer_vars == << file, pending, nlines >>
agg_vars == << keyword_counts_by_author, keyword_color, assign_rank >>
hist_vars == << delivered, renders, flushes, closed_logs >>

NoLine == << >>
NoChart == [authors |-> << >>, stack |-> << >>, legend |-> << >>,
            heights |-> << >>, drawn |-> FALSE]

Init ==
    /\ exists \in BOOLEAN
    /\ file \in (IF exists THEN PreFiles ELSE { << >> })
    /\ pending = NoText
    /\ nlines = 0
    /\ pc = "start"
    /\ pos = 0
    /\ start_eof = 0
    /\ line = NoLine
    /\ author = ""
    /\ keyword = ""
    /\ keyword_counts_by_author = << >>
    /\ keyword_color = << >>
    /\ assign_rank = << >>
    /\ chart = NoChart
    /\ exc = "none"
    /\ delivered = << >>
    /\ renders = 0
    /\ flushes = 0
    /\ closed_logs = 0

\* ---------------------------------------------------------------- helpers
Min(S) == CHOOSE m \in S : \A n \in S : m <= n

\* dict.get(key, default)
Get(d, k, default) == IF k \in DOMAIN d THEN d[k] ELSE default

\* Python's ordering of the strings that occur as authors and keywords.
StrOrd(s) ==
    CASE s = ""        -> 0
      [] s = "(none)"  -> 1
      [] s = "A"       -> 2
      [] s = "B"       -> 3
      [] s = "unknown" -> 4
      [] s = "x"       -> 5
      [] s = "y"       -> 6
      [] OTHER         -> 7

\* sorted(S, key=...): the elements of S in ascending order of key[x]; the
\* keys used are injective on S.
RECURSIVE SortByKey(_, _)
SortByKey(S, key) ==
    IF S = {} THEN << >>
    ELSE LET m == CHOOSE x \in S : \A y \in S : key[x] <= key[y]
         IN  << m >> \o SortByKey(S \ {m}, key)

Reversed(s) == [i \in 1..Len(s) |-> s[Len(s) + 1 - i]]

SeqToSet(s) == { s[i] : i \in 1..Len(s) }

\* All orders in which a loop may visit the elements of a set.
Orders(S) ==
    { s \in [1..Cardinality(S) -> S] : SeqToSet(s) = S }

\* ------------------------------------------------------------ file access
\* file.readline(): up to and including the next newline, or up to the end
\* of the file when no newline has been written yet.
ReadLine(f, p) ==
    LET nls == { i \in (p + 1)..Len(f) : f[i] = NL }
        end == IF nls = {} THEN Len(f) ELSE Min(nls)
    IN  SubSeq(f, p + 1, end)

\* line.strip(): the text of the line without surrounding white space.
IsText(u) == u.t = "txt"
Strip(l) == SelectSeq(l, IsText)

\* json.loads(message): the decoded value, or JSONDecodeError.
DecodeError == [kind |-> "JSONDecodeError", dict |-> EmptyDict]

json_loads(message) ==
    LET s == Strip(message)
    IN  IF /\ Len(s) = 1
           /\ s[1].part = "whole"
           /\ s[1].text.kind # "notjson"
        THEN s[1].text
        ELSE IF /\ Len(s) = 2
                /\ s[1].part = "head"
                /\ s[2].part = "tail"
                /\ s[1].text = s[2].text
                /\ s[1].text.kind # "notjson"
             THEN s[1].text
             ELSE DecodeError

\* ---------------------------------------------------------------- producer
consumer_vars == << exists, pc, pos, start_eof, line, author, keyword,
                    keyword_counts_by_author, keyword_color, assign_rank,
                    chart, exc, delivered, renders, flushes, closed_logs >>

AppendLine(x) ==
    /\ exists
    /\ pending = NoText
    /\ nlines < MaxLines
    /\ file' = file \o << Piece(x, "whole"), NL >>
    /\ nlines' = nlines + 1
    /\ UNCHANGED << pending, consumer_vars >>

AppendHead(x) ==
    /\ exists
    /\ pending = NoText
    /\ nlines < MaxLines
    /\ file' = Append(file, Piece(x, "head"))
    /\ pending' = x
    /\ nlines' = nlines + 1
    /\ UNCHANGED consumer_vars

AppendText(x) ==
    /\ exists
    /\ pending = NoText
    /\ nlines < MaxLines
    /\ file' = Append(file, Piece(x, "whole"))
    /\ pending' = EndOfLine
    /\ nlines' = nlines + 1
    /\ UNCHANGED consumer_vars

AppendNewline ==
    /\ pending = EndOfLine
    /\ file' = Append(file, NL)
    /\ pending' = NoText
    /\ UNCHANGED << nlines, consumer_vars >>

AppendTail ==
    /\ pending \notin {NoText, EndOfLine}
    /\ file' = file \o << Piece(pending, "tail"), NL >>
    /\ pending' = NoText
    /\ UNCHANGED << nlines, consumer_vars >>

AppendBlank ==
    /\ exists
    /\ pending = NoText
    /\ nlines < MaxLines
    /\ file' = Append(file, NL)
    /\ nlines' = nlines + 1
    /\ UNCHANGED << pending, consumer_vars >>

\* --------------------------------------------------------------- colorizer
ColorForColorAlways(kc, kw) ==
    (kw :> PALETTE[(Cardinality(DOMAIN kc) % Len(PALETTE)) + 1]) @@ kc

\* color_for, first assignment: keyword_color[kw] = PALETTE[idx % len(PALETTE)]
ColorForColor(kc, kw) ==
    IF kw \notin DOMAIN kc
    THEN (kw :> PALETTE[(Cardinality(DOMAIN kc) % Len(PALETTE)) + 1]) @@ kc
    ELSE kc

\* color_for, second assignment: assign_rank[kw] = len(assign_rank)
ColorForRank(kc, ar, kw) ==
    IF kw \notin DOMAIN kc
    THEN (kw :> Cardinality(DOMAIN ar)) @@ ar
    ELSE ar

\* color_for(kw): the two maps after the call.
color_for(kc, ar, kw) ==
    [kc |-> ColorForColor(kc, kw), ar |-> ColorForRank(kc, ar, kw)]

\* for kw in all_keywords: color_for(kw), visiting the set in the order given.
RECURSIVE ColorAll(_, _, _)
ColorAll(kc, ar, order) ==
    IF order = << >> THEN [kc |-> kc, ar |-> ar]
    ELSE LET c == color_for(kc, ar, Head(order))
         IN  ColorAll(c.kc, c.ar, Tail(order))

\* ---------------------------------------------------------------- renderer
\* authors = sorted(keyword_counts_by_author.keys())
SortedAuthors(counts) ==
    SortByKey(DOMAIN counts, [a \in DOMAIN counts |-> StrOrd(a)])

\* union of all keywords across authors
AllKeywords(counts) == UNION { DOMAIN counts[a] : a \in DOMAIN counts }

StackOrderByRankOnly(all_keywords, ar) ==
    SortByKey(all_keywords,
              [k \in all_keywords |-> Get(ar, k, BigRank) * 8 + StrOrd(k)])

\* keywords other than "(none)" sorted by (assign_rank.get(k, 10**9), k),
\* then "(none)" appended when present.
StackOrder(all_keywords, ar) ==
    LET rest == all_keywords \ {"(none)"}
        key  == [k \in rest |-> Get(ar, k, BigRank) * 8 + StrOrd(k)]
        keywords == SortByKey(rest, key)
    IN  IF "(none)" \in all_keywords
        THEN Append(keywords, "(none)")
        ELSE keywords

\* kw_order = keywords if not LEGEND_TOP_FIRST else list(reversed(keywords))
LegendOrder(keywords) ==
    IF ~LEGEND_TOP_FIRST THEN keywords ELSE Reversed(keywords)

\* heights = [keyword_counts_by_author[a].get(kw, 0) for a in authors]
Heights(counts, authors, keywords) ==
    [kw \in SeqToSet(keywords) |->
        [i \in 1..Len(authors) |-> Get(counts[authors[i]], kw, 0)]]

\* The aggregate state after the heights have been read: indexing an author
\* that is a key and calling .get on the inner dict insert nothing.
CountsAfterHeights(counts, keywords) == counts

\* update_chart_all(): the maps and the chart after the call, when the set
\* all_keywords is iterated in the given order.
update_chart_all(counts, kc, ar, order) ==
    LET authors == SortedAuthors(counts)
        all_keywords == AllKeywords(counts)
        c == ColorAll(kc, ar, order)
        keywords == StackOrder(all_keywords, c.ar)
    IN  IF authors = << >>
        THEN [counts |-> counts, kc |-> kc, ar |-> ar,
              chart |-> [authors |-> << >>, stack |-> << >>,
                         legend |-> << >>, heights |-> << >>,
                         drawn |-> TRUE]]
        ELSE [counts |-> CountsAfterHeights(counts, keywords),
              kc |-> c.kc, ar |-> c.ar,
              chart |-> [authors |-> authors, stack |-> keywords,
                         legend |-> LegendOrder(keywords),
                         heights |-> Heights(counts, authors, keywords),
                         drawn |-> TRUE]]

\* ------------------------------------------------------- process_message
None == "<None>"

\* x or y
Or(x, y) == IF x \in {None, ""} THEN y ELSE x

\* author = message_dict.get("author", "unknown")
ResolveAuthor(d) == Get(d, "author", "unknown")

ResolveKeywordDefaultOnly(d) == Get(d, "keyword_mentioned", "(none)")

\* keyword = message_dict.get("keyword_mentioned") or "(none)"
ResolveKeyword(d) == Or(Get(d, "keyword_mentioned", None), "(none)")

IncrementAssignsOne(counts, a, kw) ==
    LET inner == IF a \in DOMAIN counts THEN counts[a] ELSE EmptyDict
    IN  (a :> ((kw :> 1) @@ inner)) @@ counts

\* keyword_counts_by_author[author][keyword] += 1 on the nested defaultdict
Increment(counts, a, kw) ==
    LET inner == IF a \in DOMAIN counts THEN counts[a] ELSE EmptyDict
    IN  (a :> ((kw :> Get(inner, kw, 0) + 1) @@ inner)) @@ counts

AfterHandlerCleanupOnInterruptOnly(e) ==
    IF e = "KeyboardInterrupt" THEN "finally" ELSE "done"

\* Where control goes once an except clause of main has logged exception e:
\* the finally clause runs after either handler.
AfterHandler(e) == "finally"

InLoop == {"poll", "parse", "color", "count", "chart"}

\* file.seek(0, os.SEEK_END): the offset the handle is left at.
SeekStart(f) == 0

SeekEnd(f) == Len(f)

\* main, up to the poll loop: the existence check, open and seek to the end.
Start ==
    /\ pc = "start"
    /\ IF ~exists
       THEN /\ pc' = "exited"
            /\ UNCHANGED << pos, start_eof >>
       ELSE /\ pos' = SeekEnd(file)
            /\ start_eof' = Len(file)
            /\ pc' = "poll"
    /\ UNCHANGED << exists, producer_vars, line, author, keyword, agg_vars,
                    chart, exc, hist_vars >>

\* One turn of the poll loop: readline, then process_message or continue.
Poll ==
    /\ pc = "poll"
    /\ LET l == ReadLine(file, pos)
       IN  /\ line' = l
           /\ pos' = pos + Len(l)
           /\ IF Strip(l) # << >>
              THEN /\ pc' = "parse"
                   /\ delivered' = Append(delivered, [line |-> l, from |-> pos])
              ELSE /\ pc' = "poll"
                   /\ UNCHANGED delivered
    /\ UNCHANGED << exists, producer_vars, start_eof, author, keyword,
                    agg_vars, chart, exc, renders, flushes, closed_logs >>

\* process_message, steps 1-3: decode the line and extract the fields.
Parse ==
    /\ pc = "parse"
    /\ LET v == json_loads(line)
       IN  CASE v = DecodeError ->
                   /\ pc' = "poll"
                   /\ UNCHANGED << author, keyword, exc >>
             [] v.kind = "nonobj" ->
                   /\ pc' = "except"
                   /\ exc' = "AttributeError"
                   /\ UNCHANGED << author, keyword >>
             [] OTHER ->
                   /\ author' = ResolveAuthor(v.dict)
                   /\ keyword' = ResolveKeyword(v.dict)
                   /\ pc' = "color"
                   /\ UNCHANGED exc
    /\ UNCHANGED << exists, producer_vars, pos, start_eof, line, agg_vars,
                    chart, hist_vars >>

ColorOmitted ==
    /\ pc = "color"
    /\ pc' = "count"
    /\ UNCHANGED << exists, producer_vars, pos, start_eof, line, author,
                    keyword, agg_vars, chart, exc, hist_vars >>

\* process_message: _ = color_for(keyword)
Color ==
    /\ pc = "color"
    /\ LET c == color_for(keyword_color, assign_rank, keyword)
       IN  /\ keyword_color' = c.kc
           /\ assign_rank' = c.ar
    /\ pc' = "count"
    /\ UNCHANGED << exists, producer_vars, pos, start_eof, line, author,
                    keyword, keyword_counts_by_author, chart, exc, hist_vars >>

\* process_message, step 4: update the counts.
Count ==
    /\ pc = "count"
    /\ keyword_counts_by_author' =
           Increment(keyword_counts_by_author, author, keyword)
    /\ pc' = "chart"
    /\ UNCHANGED << exists, producer_vars, pos, start_eof, line, author,
                    keyword, keyword_color, assign_rank, chart, exc,
                    hist_vars >>

ChartNotRedrawn ==
    /\ pc = "chart"
    /\ pc' = "poll"
    /\ UNCHANGED << exists, producer_vars, pos, start_eof, line, author,
                    keyword, agg_vars, chart, exc, hist_vars >>

\* process_message, step 5: update_chart_all(), then return to the loop.
Chart ==
    /\ pc = "chart"
    /\ \E order \in Orders(AllKeywords(keyword_counts_by_author)) :
          LET u == update_chart_all(keyword_counts_by_author, keyword_color,
                                    assign_rank, order)
          IN  /\ keyword_counts_by_author' = u.counts
              /\ keyword_color' = u.kc
              /\ assign_rank' = u.ar
              /\ chart' = u.chart
    /\ renders' = renders + 1
    /\ pc' = "poll"
    /\ UNCHANGED << exists, producer_vars, pos, start_eof, line, author,
                    keyword, exc, delivered, flushes, closed_logs >>

\* KeyboardInterrupt raised between two statements of the loop.
Interrupt ==
    /\ pc \in InLoop
    /\ exc' = "KeyboardInterrupt"
    /\ pc' = "except"
    /\ UNCHANGED << exists, producer_vars, pos, start_eof, line, author,
                    keyword, agg_vars, chart, hist_vars >>

\* KeyboardInterrupt raised inside color_for, between its two assignments.
InterruptInColorFor ==
    /\ pc = "color"
    /\ keyword \notin DOMAIN keyword_color
    /\ keyword_color' = ColorForColor(keyword_color, keyword)
    /\ exc' = "KeyboardInterrupt"
    /\ pc' = "except"
    /\ UNCHANGED << exists, producer_vars, pos, start_eof, line, author,
                    keyword, keyword_counts_by_author, assign_rank, chart,
                    hist_vars >>

\* except KeyboardInterrupt / except Exception: log the exception.
Except ==
    /\ pc = "except"
    /\ pc' = AfterHandler(exc)
    /\ UNCHANGED << exists, producer_vars, pos, start_eof, line, author,
                    keyword, agg_vars, chart, exc, hist_vars >>

\* finally: plt.ioff(); plt.show()
Finally ==
    /\ pc = "finally"
    /\ flushes' = flushes + 1
    /\ pc' = "closing"
    /\ UNCHANGED << exists, producer_vars, pos, start_eof, line, author,
                    keyword, agg_vars, chart, exc, delivered, renders,
                    closed_logs >>

\* finally: logger.info("Consumer closed.")
Closed ==
    /\ pc = "closing"
    /\ closed_logs' = closed_logs + 1
    /\ pc' = "done"
    /\ UNCHANGED << exists, producer_vars, pos, start_eof, line, author,
                    keyword, agg_vars, chart, exc, delivered, renders,
                    flushes >>

Next ==
    \/ \E x \in Texts : AppendLine(x)
    \/ \E x \in SplitTexts : AppendHead(x)
    \/ AppendTail
    \/ \E x \in SplitTexts : AppendText(x)
    \/ AppendNewline
    \/ AppendBlank
    \/ Start
    \/ Poll
    \/ Parse
    \/ Color
    \/ Count
    \/ Chart
    \/ Interrupt
    \/ InterruptInColorFor
    \/ Except
    \/ Finally
    \/ Closed

Spec == Init /\ [][Next]_vars

\* ------------------------------------------------------------- properties
\* The count stored for (a, kw), zero when there is no entry.
CountIn(counts, a, kw) ==
    IF a \in DOMAIN counts /\ kw \in DOMAIN counts[a]
    THEN counts[a][kw]
    ELSE 0

AuthorNames == AuthorVals \cup {"unknown"}
KeywordNames == KwVals \cup {"(none)"}

\* A delivered line carries a record when its text is one whole JSON object.
IsRecord(l) == json_loads(l).kind = "obj"

\* The author and keyword a record is to be attributed to.
ExpectedAuthor(d) == IF "author" \in DOMAIN d THEN d["author"] ELSE "unknown"

ExpectedKeyword(d) ==
    IF "keyword_mentioned" \in DOMAIN d /\ d["keyword_mentioned"] # ""
    THEN d["keyword_mentioned"]
    ELSE "(none)"

\* Number of delivered records attributed to (a, kw).
Tally(a, kw) ==
    Cardinality({ i \in 1..Len(delivered) :
                    /\ IsRecord(delivered[i].line)
                    /\ ExpectedAuthor(json_loads(delivered[i].line).dict) = a
                    /\ ExpectedKeyword(json_loads(delivered[i].line).dict)
                         = kw })

\* C1: whenever the loop is back at readline, i.e. every delivered line has
\* been consumed, the count of each (author, keyword) pair equals the number
\* of delivered records attributed to that pair, and no other pair has an entry.
C1_CountsEqualRecords ==
    pc = "poll" =>
        /\ DOMAIN keyword_counts_by_author \subseteq AuthorNames
        /\ \A a \in DOMAIN keyword_counts_by_author :
               DOMAIN keyword_counts_by_author[a] \subseteq KeywordNames
        /\ \A a \in AuthorNames, kw \in KeywordNames :
               CountIn(keyword_counts_by_author, a, kw) = Tally(a, kw)

C1_Witness ==
    /\ pc = "poll"
    /\ \E a \in AuthorNames, kw \in KeywordNames :
           CountIn(keyword_counts_by_author, a, kw) = 2

\* C2: a delivered line that is malformed (not a JSON object) never makes an
\* exception leave process_message.
C2_MalformedNeverRaises ==
    (Strip(line) # << >> /\ ~IsRecord(line)) => exc # "AttributeError"

\* C3: every line handed to process_message is a full line, i.e. ends with
\* the newline the producer wrote.
C3_OnlyFullLinesDelivered ==
    \A i \in 1..Len(delivered) :
        delivered[i].line[Len(delivered[i].line)] = NL

HasNone == chart.drawn /\ "(none)" \in SeqToSet(chart.stack)

KeywordsAssigned ==
    \A a \in DOMAIN keyword_counts_by_author :
        \A kw \in DOMAIN keyword_counts_by_author[a] :
            kw \in DOMAIN keyword_color /\ kw \in DOMAIN assign_rank

AssignmentsStable ==
    /\ \A kw \in DOMAIN keyword_color :
           kw \in DOMAIN keyword_color' /\ keyword_color'[kw] = keyword_color[kw]
    /\ \A kw \in DOMAIN assign_rank :
           kw \in DOMAIN assign_rank' /\ assign_rank'[kw] = assign_rank[kw]

\* C5: every keyword with a count has a colour and a rank, and no step
\* changes the colour or the rank of a keyword that already has one.
C5_AssignedOnceAndStable ==
    [](KeywordsAssigned) /\ [][AssignmentsStable]_vars

C5_Witness ==
    /\ pc = "poll"
    /\ CountIn(keyword_counts_by_author, "A", "x") = 2
    /\ keyword_color["x"] = PALETTE[1]
    /\ assign_rank["x"] = 0

\* C6: the step that counts a decoded record adds one to the pair made of
\* the record's author ("unknown" when the field is absent) and its keyword
\* ("(none)" when the field is absent or empty).
C6_FallbackAttribution ==
    [][(pc = "count" /\ pc' = "chart") =>
         LET d == json_loads(line).dict
         IN  CountIn(keyword_counts_by_author',
                     ExpectedAuthor(d), ExpectedKeyword(d))
               = CountIn(keyword_counts_by_author,
                         ExpectedAuthor(d), ExpectedKeyword(d)) + 1]_vars

C6_Witness ==
    /\ pc = "chart"
    /\ "author" \notin DOMAIN json_loads(line).dict
    /\ "keyword_mentioned" \in DOMAIN json_loads(line).dict
    /\ json_loads(line).dict["keyword_mentioned"] = ""
    /\ CountIn(keyword_counts_by_author, "unknown", "(none)") = 1

LeftLoop == pc \in {"except", "finally", "closing", "done"}

\* C7: once the loop has been left nothing is read or processed any more,
\* the flush precedes the "Consumer closed." log, and when the process is
\* done each of the two has happened exactly once.
C7_ShutdownRunsOnce ==
    /\ [](closed_logs <= flushes /\ flushes <= 1)
    /\ [](pc = "done" => flushes = 1 /\ closed_logs = 1)
    /\ [][LeftLoop =>
            /\ LeftLoop'
            /\ pos' = pos
            /\ delivered' = delivered
            /\ keyword_counts_by_author' = keyword_counts_by_author
            /\ renders' = renders]_vars

C7_Witness ==
    /\ pc = "done"
    /\ exc = "AttributeError"
    /\ flushes = 1
    /\ closed_logs = 1

NumRecords ==
    Cardinality({ i \in 1..Len(delivered) : IsRecord(delivered[i].line) })

ChartReflectsCounts ==
    /\ chart.drawn
    /\ SeqToSet(chart.authors) = DOMAIN keyword_counts_by_author
    /\ SeqToSet(chart.stack) = AllKeywords(keyword_counts_by_author)
    /\ \A kw \in SeqToSet(chart.stack) :
           \A i \in 1..Len(chart.authors) :
               chart.heights[kw][i] =
                   CountIn(keyword_counts_by_author, chart.authors[i], kw)

\* C8: whenever the loop is about to read a line, update_chart_all has been
\* called exactly once per delivered record, never for a skipped line, and
\* the chart shows the current counts.
C8_RedrawPerRecord ==
    pc = "poll" =>
        /\ renders = NumRecords
        /\ (renders > 0 => ChartReflectsCounts)

C8_Witness ==
    /\ pc = "poll"
    /\ Len(delivered) = 2
    /\ renders = 1
    /\ ChartReflectsCounts

\* C9: every line handed to process_message starts at or after the
\* end-of-file offset observed when main opened the file.
C9_OnlyAppendedContent ==
    \A i \in 1..Len(delivered) : delivered[i].from >= start_eof

C9_Witness ==
    /\ start_eof > 0
    /\ Len(delivered) >= 1
    /\ pc = "poll"
    /\ renders = 1

\* Index of the first delivered record attributed to keyword kw.
FirstSeen(kw) ==
    Min({ i \in 1..Len(delivered) :
            /\ IsRecord(delivered[i].line)
            /\ ExpectedKeyword(json_loads(delivered[i].line).dict) = kw })

RanksFollowFirstProcessing ==
    \A kw \in DOMAIN assign_rank :
        assign_rank[kw] =
            Cardinality({ k2 \in DOMAIN assign_rank :
                            FirstSeen(k2) < FirstSeen(kw) })

\* C10: the update_chart_all step of process_message leaves the counts, the
\* colours and the ranks as they were, and every rank is the number of
\* keywords first processed before that keyword.
C10_RenderLeavesStateAlone ==
    /\ [][(pc = "chart" /\ pc' = "poll") =>
            /\ keyword_counts_by_author' = keyword_counts_by_author
            /\ keyword_color' = keyword_color
            /\ assign_rank' = assign_rank]_vars
    /\ [](RanksFollowFirstProcessing)

C10_Witness ==
    /\ pc = "poll"
    /\ renders = 2
    /\ Cardinality(DOMAIN keyword_counts_by_author) = 2
    /\ Cardinality(DOMAIN assign_rank) = 2
    /\ \E a \in DOMAIN keyword_counts_by_author :
           \E kw \in SeqToSet(chart.stack) :
               /\ kw \notin DOMAIN keyword_counts_by_author[a]
               /\ chart.heights[kw][CHOOSE i \in 1..Len(chart.authors) :
                                       chart.authors[i] = a] = 0

====
